---- MODULE Spec2Model ----
(***************************************************************************)
(* GreenFund backend: the carbon ledger (app/routers/activities.py,        *)
(* app/carbon_model.py) and the weather / advice requests                  *)
(* (app/routers/climate_actions.py, app/routers/climate.py,                *)
(* app/recommendations.py).                                                *)
(*                                                                         *)
(* The specifications share the variables:                                 *)
(*   SpecClimate     : one weather / advice request, step by step          *)
(*   SpecCancellable : the same, the caller may cancel during a sleep      *)
(*   SpecLedger      : the activity store and the carbon summary request   *)
(*   SpecEstimator   : the pure function estimate_carbon_footprint         *)
(*   SpecEngine      : store operations beside one read-only request       *)
(*   SpecDispatch    : two requests sharing the single-threaded event loop *)
(*   SpecWater       : the pure function assess_water_stress               *)
(* Kilograms are modelled in tenths (1.5 kg = 15).                         *)
(***************************************************************************)
EXTENDS Integers, Sequences, FiniteSets

VARIABLES
    \* ---- one weather / advice request ----
    op,          \* which operation the request runs ("none" before it starts)
    pc,          \* where the request is: idle, fetch, sleep, get, ai, done, cancelled
    attempt,     \* loop variable of _fetch_weather_data
    fetchResult, \* what _fetch_weather_data did: pending, forecast, raised, cancelled
    outcomes,    \* provider outcomes seen by this request, in order
    delays,      \* asyncio.sleep durations performed by this request, in order
    recent,      \* activities handed to generate_recommendations, newest first
    precip,      \* total precipitation (mm) of the forecast handed to it
    evidence,    \* rule assessment: [pest |-> set of pests, water |-> level]
    aiCalls,     \* number of narrative collaborator calls made
    collab,      \* what the collaborator answers to this request ("none" before)
    resp,        \* the response / raised HTTPException / returned list
    \* ---- the activity store and the carbon summary request ----
    store,       \* set of FarmActivity rows
    nextId,      \* next autoincrement primary key
    actResp,     \* status of the last create/delete/list call (0 = none yet)
    sumPc,       \* carbon summary request: idle, total, done
    sumFarm,     \* farm the summary request asks for
    sumTotal,    \* result of the first query (func.sum over the farm)
    sumChanged,  \* a write was committed after the first query of the running request
    sumTouched,  \* such a write was to an activity of the farm the request asks for
    sumResp,     \* the CarbonSummary returned (or the 404)
    \* ---- the estimator called on its own ----
    estType, estDesc, estResult,
    \* ---- two alert / water-advice requests on one event loop ----
    reqPc,       \* per request: idle, get, sleep, collab, done
    reqAttempt,  \* per request: loop variable of _fetch_weather_data
    reqStatus,   \* per request: status of its response (0 before)
    loop,        \* the request running a synchronous call on the loop's thread, 0 if none
    \* ---- assess_water_stress called on its own ----
    wsForecast,  \* precipitation_sum of the 7 forecast days (mm)
    wsResult     \* the level returned ("" before the call)

climateVars ==
    <<op, pc, attempt, fetchResult, outcomes, delays, recent, precip, evidence, aiCalls,
      collab, resp>>
ledgerVars ==
    <<store, nextId, actResp, sumPc, sumFarm, sumTotal, sumChanged, sumTouched, sumResp>>
estVars == <<estType, estDesc, estResult>>
dispatchVars == <<reqPc, reqAttempt, reqStatus, loop>>
waterVars == <<wsForecast, wsResult>>
vars == <<climateVars, ledgerVars, estVars, dispatchVars, waterVars>>

\* Optional[float] = None / SQL NULL / Python None, in an integer field
NULL == -1

(***************************************************************************)
(* Farms and users (rows of Farm; never changed by the modelled routers)   *)
(***************************************************************************)
Users == {1, 2}
Farms == {1, 2}
\* requests may also name a farm that does not exist
FarmIds == {1, 2, 3}
\* Farm.owner_id
owner_id(f) == IF f = 1 THEN 1 ELSE 2

(***************************************************************************)
(* _fetch_weather_data                                                     *)
(***************************************************************************)
\* one retry more than the code allows
max_retries_plus_one == 2 + 1
max_retries == 2
base_delay == 1

RECURSIVE Pow2(_)
Pow2(n) == IF n = 0 THEN 1 ELSE 2 * Pow2(n - 1)

\* What one client.get + raise_for_status + response.json() can do.
\*   ok      : 2xx with a JSON object body
\*   badjson : 2xx whose body is not JSON (response.json() raises ValueError)
\*   conn    : httpx.ConnectError   (a RequestError)
\*   timeout : httpx.TimeoutException (a RequestError)
\*   status  : 4xx / 5xx, raise_for_status raises HTTPStatusError
StatusCodes == {404, 429, 503}
ProviderOutcomes ==
    {[kind |-> "ok", code |-> 200], [kind |-> "badjson", code |-> 200],
     [kind |-> "conn", code |-> 0], [kind |-> "timeout", code |-> 0]}
    \cup {[kind |-> "status", code |-> c] : c \in StatusCodes}

\* the except clause also catches the JSON decoding error of response.json()
IsHttpxError_WithDecodeError(o) == o.kind \in {"conn", "timeout", "status", "badjson"}
\* only connection errors, timeouts and 5xx / 429 answers are retried
IsHttpxError_TransientOnly(o) ==
    o.kind \in {"conn", "timeout"} \/ (o.kind = "status" /\ o.code \in {429, 503})
\* except (httpx.RequestError, httpx.HTTPStatusError)
IsHttpxError(o) == o.kind \in {"conn", "timeout", "status"}
\* isinstance(e, httpx.HTTPStatusError)
IsHTTPStatusError(o) == o.kind = "status"

NoResp == [status |-> 0, detail |-> "", body |-> <<>>]
HTTPException(status_code, detail) == [status |-> status_code, detail |-> detail, body |-> <<>>]
Ok(body) == [status |-> 200, detail |-> "", body |-> body]

\* the isinstance test dropped: every exhausted fetch reported as upstream error
FinalFetchError_Always502(o) ==
    HTTPException(502, "Weather service error after retries.")
FinalFetchError_Always503(o) ==
    HTTPException(503, "Could not connect to the weather service after retries.")
\* the HTTPException raised on the last attempt (lines 40-45)
FinalFetchError(o) ==
    IF IsHTTPStatusError(o)
    THEN HTTPException(502, "Weather service error after retries.")
    ELSE HTTPException(503, "Could not connect to the weather service after retries.")

\* the comparison off by one: the last pass sleeps and the loop runs out
IsLastAttempt_OffByOne(a) == a > max_retries
\* the comparison one early: the second failure already raises
IsLastAttempt_OneEarly(a) == a = max_retries - 1
\* if attempt == max_retries
IsLastAttempt(a) == a = max_retries

\* a backoff that never grows: asyncio.sleep(base_delay)
BackoffDelay_Constant(a) == base_delay
\* a backoff that shrinks: base_delay * (2 ** (max_retries - attempt))
BackoffDelay_Shrinking(a) == base_delay * Pow2(max_retries - a)
\* asyncio.sleep(base_delay * (2 ** attempt))
BackoffDelay(a) == base_delay * Pow2(a)

(***************************************************************************)
(* The narrative collaborator (OpenAI chat completion) and the rule        *)
(* assessments handed to it                                                *)
(***************************************************************************)
MaxItems == 4

\* What the collaborator does with the request's one call.
\*   ok          : JSON object with the expected key, a list of n strings
\*   no_key      : JSON object without the expected key
\*   bad_value   : JSON object whose value under the key is not a list of strings
\*   not_json    : content that json.loads rejects
\*   api_status  : openai.APIError carrying an HTTP status (rate limit, auth)
\*   api_timeout : openai.APIError without a status (timeout, connection)
\*   other       : any other exception (client not configured, bad attribute)
CollabOutcomes ==
    {[kind |-> "ok", code |-> 200, n |-> k] : k \in 0..MaxItems}
    \cup {[kind |-> k, code |-> 200, n |-> 0] : k \in {"no_key", "bad_value", "not_json"}}
    \cup {[kind |-> "api_status", code |-> 429, n |-> 0],
          [kind |-> "api_timeout", code |-> 0, n |-> 0],
          [kind |-> "other", code |-> 0, n |-> 0]}
NoCollab == [kind |-> "none", code |-> 0, n |-> 0]

\* except APIError
IsAPIError(c) == c.kind \in {"api_status", "api_timeout"}
\* except Exception (after APIError): json.loads failure or anything else raised
IsOtherException(c) == c.kind \in {"not_json", "other"}
\* the collaborator call failed: it raised, timed out or answered unparseably
CollabFailed(c) == IsAPIError(c) \/ IsOtherException(c)

\* assess_pest_disease_risks / assess_water_stress results (app.climate_rules)
Pests == {"Powdery Mildew"}
RiskLevels == {"Low", "Medium", "High"}
Evidence == [pest : SUBSET Pests, water : RiskLevels]
NoEvidence == [pest |-> {}, water |-> "Low"]

AiItems(n) == [i \in 1..n |-> "ai text"]

\* activities: List[FarmActivity] handed to generate_recommendations, each
\* with its type and its age in days; and the forecast's total precipitation
Activity(t, d) == [activity_type |-> t, days_ago |-> d]
ActivityLists ==
    {<<>>,
     <<Activity("Planting", 2), Activity("Fertilizing", 3)>>,
     <<Activity("Planting", 2)>>,
     <<Activity("Irrigation", 10)>>}
ForecastTotals == {0, 1, 21}

\* set([a.activity_type for a in activities[:5]])
activity_summary(acts) ==
    {acts[i].activity_type : i \in 1..(IF Len(acts) < 5 THEN Len(acts) ELSE 5)}

\* what the prompt tells the collaborator: the two rule assessments and the
\* types of the recent activities
PromptFacts(ev, acts) ==
    {[fact |-> "pest_risk", about |-> p] : p \in ev.pest}
    \cup {[fact |-> "water_stress", about |-> ev.water]}
    \cup {[fact |-> "recent_activity", about |-> t] : t \in activity_summary(acts)}

\* generate_recommendations, lines 42-56: the list returned for a collaborator answer
ApiErrorNotice == <<"Could not generate AI recommendations due to API error.">>
OtherErrorNotice == <<"Could not generate AI recommendations at this time.">>
\* the except branches return nothing
\* the collaborator's list cut to the 3 entries the prompt asks for
generate_recommendations_Capped(ev, c) ==
    CASE c.kind = "ok" -> AiItems(IF c.n > 3 THEN 3 ELSE c.n)
      [] c.kind = "no_key" -> <<"AI analysis failed to generate recommendations.">>
      [] c.kind = "bad_value" -> <<"<value that is not a list of strings>">>
      [] IsAPIError(c) -> ApiErrorNotice
      [] OTHER -> OtherErrorNotice
\* the rule-only fallback of the except branch switched on (it is commented
\* out in the source)
generate_recommendations_RuleFallback(ev, c) ==
    LET fallback_recs ==
            (IF ev.water = "High"
             THEN <<"High water stress expected. Consider irrigation scheduling.">>
             ELSE <<>>)
            \o (IF "Powdery Mildew" \in ev.pest
                THEN <<"Monitor crops for Powdery Mildew.">> ELSE <<>>)
    IN CASE c.kind = "ok" -> AiItems(c.n)
         [] c.kind = "no_key" -> <<"AI analysis failed to generate recommendations.">>
         [] c.kind = "bad_value" -> <<"<value that is not a list of strings>">>
         [] IsAPIError(c) -> ApiErrorNotice
         [] OTHER -> IF fallback_recs # <<>> THEN fallback_recs ELSE OtherErrorNotice
generate_recommendations_EmptyOnFailure(ev, c) ==
    CASE c.kind = "ok" -> AiItems(c.n)
      [] c.kind = "no_key" -> <<"AI analysis failed to generate recommendations.">>
      [] c.kind = "bad_value" -> <<"<value that is not a list of strings>">>
      [] OTHER -> <<>>
generate_recommendations(ev, c) ==
    CASE c.kind = "ok" -> AiItems(c.n)
      [] c.kind = "no_key" -> <<"AI analysis failed to generate recommendations.">>
      [] c.kind = "bad_value" -> <<"<value that is not a list of strings>">>
      [] IsAPIError(c) -> ApiErrorNotice
      [] OTHER -> OtherErrorNotice

\* the except branches swallow the failure and answer with an empty result
AdviceResponse_Swallow(o, c) ==
    IF c.kind = "ok" THEN Ok(AiItems(c.n)) ELSE Ok(<<>>)
\* get_pest_disease_alerts / get_carbon_sequestration_guidance /
\* get_water_management_advice, from the collaborator call to the return
AdviceResponse(o, c) ==
    CASE c.kind = "ok" -> Ok(AiItems(c.n))
      [] c.kind = "no_key" -> Ok(<<>>)
      \* the response model rejects the value outside the try block
      [] c.kind = "bad_value" -> HTTPException(500, "Internal Server Error")
      [] IsAPIError(c) ->
            HTTPException(IF c.code # 0 THEN c.code ELSE 500, "AI analysis failed")
      [] OTHER -> HTTPException(500, "AI analysis refinement failed")

(***************************************************************************)
(* One weather / advice request                                            *)
(***************************************************************************)
FetchOps == {"alerts", "water"}
Ops == FetchOps \cup {"guidance", "forecast", "recs"}

IdleRequest ==
    /\ op = "none" /\ pc = "idle" /\ attempt = 0 /\ fetchResult = "pending"
    /\ outcomes = <<>> /\ delays = <<>>
    /\ recent = <<>> /\ precip = 0
    /\ evidence = NoEvidence /\ aiCalls = 0 /\ collab = NoCollab
    /\ resp = NoResp

Finish(r) == /\ pc' = "done" /\ resp' = r

\* The handler up to its first await: db.get(Farm, farm_id) and the checks.
\* "recs" is a direct, awaited call of generate_recommendations(forecast,
\* activities, crop), which starts with the two rule assessments.
StartRequest(o, f, u) ==
    /\ pc = "idle"
    /\ UNCHANGED <<ledgerVars, estVars, dispatchVars, waterVars>>
    /\ op' = o
    /\ UNCHANGED <<attempt, fetchResult, outcomes, delays, aiCalls, collab>>
    /\ CASE o = "recs" ->
              /\ \E acts \in ActivityLists : recent' = acts
              /\ \E mm \in ForecastTotals : precip' = mm
              /\ \E ev \in Evidence : evidence' = ev
              /\ pc' = "ai" /\ UNCHANGED resp
         [] f \notin Farms ->
              /\ Finish(HTTPException(404, "Farm not found"))
              /\ UNCHANGED <<recent, precip, evidence>>
         [] o = "forecast" /\ owner_id(f) # u ->
              /\ Finish(HTTPException(403, "Not authorized"))
              /\ UNCHANGED <<recent, precip, evidence>>
         [] o = "forecast" ->
              /\ pc' = "get" /\ UNCHANGED <<resp, recent, precip, evidence>>
         [] o = "guidance" ->
              \* assess_carbon_trend(activities) runs before the collaborator call
              /\ pc' = "ai" /\ UNCHANGED <<resp, recent, precip, evidence>>
         [] OTHER ->
              /\ pc' = "fetch" /\ UNCHANGED <<resp, recent, precip, evidence>>

\* a handler that swallows the fetcher's error and goes on to its rules and
\* its collaborator call with whatever it has
FetchAttempt_ProceedOnError(o) ==
    /\ pc = "fetch"
    /\ UNCHANGED <<ledgerVars, estVars, dispatchVars, waterVars>>
    /\ attempt <= max_retries
    /\ outcomes' = Append(outcomes, o)
    /\ UNCHANGED <<op, attempt, delays, recent, precip, aiCalls, collab, resp>>
    /\ fetchResult' = IF o.kind = "ok" THEN "forecast" ELSE "raised"
    /\ \E ev \in Evidence : evidence' = ev
    /\ pc' = "ai"
\* One pass of the retry loop of _fetch_weather_data up to the sleep, and, on
\* success, the caller's rule assessment of the forecast.
FetchAttempt(o) ==
    /\ pc = "fetch"
    /\ UNCHANGED <<ledgerVars, estVars, dispatchVars, waterVars>>
    /\ attempt <= max_retries
    /\ outcomes' = Append(outcomes, o)
    /\ UNCHANGED <<op, attempt, delays, recent, precip, aiCalls, collab>>
    /\ CASE o.kind = "ok" ->
              /\ fetchResult' = "forecast"
              /\ \E ev \in Evidence : evidence' = ev
              /\ pc' = "ai" /\ UNCHANGED resp
         [] IsHttpxError(o) /\ IsLastAttempt(attempt) ->
              /\ fetchResult' = "raised"
              /\ Finish(FinalFetchError(o)) /\ UNCHANGED evidence
         [] IsHttpxError(o) ->
              /\ pc' = "sleep" /\ UNCHANGED <<fetchResult, resp, evidence>>
         [] OTHER ->
              \* except Exception: response.json() failed
              /\ fetchResult' = "raised"
              /\ Finish(HTTPException(500, "An unexpected error occurred fetching weather data."))
              /\ UNCHANGED evidence

\* await asyncio.sleep(...) and the loop's next iteration (or its end)
BackoffSleep ==
    /\ pc = "sleep"
    /\ UNCHANGED <<ledgerVars, estVars, dispatchVars, waterVars>>
    /\ delays' = Append(delays, BackoffDelay(attempt))
    /\ attempt' = attempt + 1
    /\ UNCHANGED <<op, outcomes, recent, precip, evidence, aiCalls, collab>>
    /\ IF attempt + 1 <= max_retries
       THEN pc' = "fetch" /\ UNCHANGED <<fetchResult, resp>>
       ELSE /\ fetchResult' = "raised"
            /\ Finish(HTTPException(500, "Weather fetch failed unexpectedly after retries."))

\* The collaborator call and everything after it.
CollaboratorCall(c) ==
    /\ pc = "ai"
    /\ UNCHANGED <<ledgerVars, estVars, dispatchVars, waterVars>>
    /\ aiCalls' = aiCalls + 1
    /\ collab' = c
    /\ UNCHANGED <<op, attempt, fetchResult, outcomes, delays, recent, precip, evidence>>
    /\ IF op = "recs"
       THEN Finish(Ok(generate_recommendations(evidence, c)))
       ELSE Finish(AdviceResponse(op, c))

\* get_weather_forecast (climate.py): a single GET without retry, then
\* generate_recommendations(daily, activities): two arguments for three
\* required parameters, so the call raises TypeError before the coroutine
\* exists; no except clause of the handler catches it.  c is what the
\* collaborator would answer at that moment.
ForecastGet(o, c) ==
    /\ pc = "get"
    /\ UNCHANGED <<ledgerVars, estVars, dispatchVars, waterVars>>
    /\ outcomes' = Append(outcomes, o)
    /\ UNCHANGED <<op, attempt, fetchResult, delays, recent, precip, evidence, aiCalls>>
    /\ CASE o.kind = "ok" ->
              /\ collab' = c
              /\ Finish(HTTPException(500, "Internal Server Error"))
         [] o.kind = "badjson" ->
              /\ collab' = c
              /\ Finish(HTTPException(500, "Internal Server Error"))
         [] IsHTTPStatusError(o) ->
              /\ UNCHANGED collab
              /\ Finish(HTTPException(502, "Received an invalid response from weather service"))
         [] OTHER ->
              /\ UNCHANGED collab
              /\ Finish(HTTPException(503, "Error communicating with weather service"))

\* an except clause that names BaseException (or asyncio.CancelledError)
\* around the sleep
CancelledErrorCaught_ByHandler == TRUE
\* asyncio.CancelledError is a BaseException and is raised by the sleep inside
\* the first except block: neither "except (httpx.RequestError,
\* httpx.HTTPStatusError)" nor "except Exception" catches it
CancelledErrorCaught == FALSE

\* The caller's task is cancelled while the request awaits asyncio.sleep:
\* the sleep raises CancelledError at once.
CancelDuringSleep ==
    /\ pc = "sleep"
    /\ UNCHANGED <<ledgerVars, estVars, dispatchVars, waterVars>>
    /\ UNCHANGED <<op, attempt, outcomes, delays, recent, precip, evidence, aiCalls, collab>>
    /\ IF CancelledErrorCaught
       THEN /\ fetchResult' = "raised"
            /\ Finish(HTTPException(500, "An unexpected error occurred fetching weather data."))
       ELSE /\ fetchResult' = "cancelled"
            /\ pc' = "cancelled"
            /\ UNCHANGED resp

NextClimate ==
    \/ \E o \in Ops, f \in FarmIds, u \in Users : StartRequest(o, f, u)
    \/ \E o \in ProviderOutcomes : FetchAttempt(o)
    \/ BackoffSleep
    \/ \E c \in CollabOutcomes : CollaboratorCall(c)
    \/ \E o \in ProviderOutcomes, c \in CollabOutcomes : ForecastGet(o, c)


(***************************************************************************)
(* carbon_model.py                                                         *)
(***************************************************************************)
\* EMISSION_FACTORS, in tenths of a kilogram
EMISSION_FACTORS ==
    [t \in {"Planting", "Irrigation", "Fertilizing", "Pest Control", "Harvesting", "Other"} |->
        CASE t = "Planting" -> 15
          [] t = "Irrigation" -> 22
          [] t = "Fertilizing" -> 100
          [] t = "Pest Control" -> 30
          [] t = "Harvesting" -> 18
          [] OTHER -> 5]

\* EMISSION_FACTORS.get(activity_type, 0.0)
estimate_carbon_footprint_ZeroDefault(activity_type, description) ==
    IF activity_type \in DOMAIN EMISSION_FACTORS
    THEN EMISSION_FACTORS[activity_type]
    ELSE 0
\* EMISSION_FACTORS.get(activity_type, 0.5)
estimate_carbon_footprint(activity_type, description) ==
    IF activity_type \in DOMAIN EMISSION_FACTORS
    THEN EMISSION_FACTORS[activity_type]
    ELSE 5

\* inputs of the estimator called on its own
EstTypes == DOMAIN EMISSION_FACTORS \cup {"Tilling", "planting", "FERTILIZING", ""}
Descriptions == {"<None>", "", "50kg urea", "diesel tractor", "drip line", "Planting"}

EstimatorInputs ==
    /\ estType \in EstTypes /\ estDesc \in Descriptions /\ estResult = NULL

Estimate ==
    /\ estResult = NULL
    /\ UNCHANGED <<climateVars, ledgerVars, dispatchVars, waterVars>>
    /\ estResult' = estimate_carbon_footprint(estType, estDesc)
    /\ UNCHANGED <<estType, estDesc>>

(***************************************************************************)
(* activities.py: the store of FarmActivity rows                           *)
(***************************************************************************)
MaxCreates == 2

\* activity_type values written to the store
LedgerTypes == {"Planting", "Fertilizing"}
\* a value FarmActivity.model_validate rejects for carbon_footprint_kg
INVALID == -2
\* what estimate_carbon_with_ai hands back at creation
CarbonInputs == {NULL, INVALID, 0, 15, 100}

Row(id, f, t, u, c) ==
    [id |-> id, farm_id |-> f, activity_type |-> t, user_id |-> u, carbon_footprint_kg |-> c]

RECURSIVE SumCarbon(_)
SumCarbon(rows) ==
    IF rows = {} THEN 0
    ELSE LET r == CHOOSE x \in rows : TRUE
         IN r.carbon_footprint_kg + SumCarbon(rows \ {r})

\* a SUM over COALESCE(carbon_footprint_kg, estimate of the row's type)
RECURSIVE SumCarbonOrEstimate(_)
SumCarbonOrEstimate(rows) ==
    IF rows = {} THEN 0
    ELSE LET r == CHOOSE x \in rows : TRUE
         IN (IF r.carbon_footprint_kg = NULL
             THEN estimate_carbon_footprint(r.activity_type, "")
             ELSE r.carbon_footprint_kg)
            + SumCarbonOrEstimate(rows \ {r})
SqlSum_EstimatorFallback(rows) ==
    IF rows = {} THEN NULL ELSE SumCarbonOrEstimate(rows)
\* SQL SUM(carbon_footprint_kg): NULL values are skipped, no value gives NULL
SqlSum(rows) ==
    LET valued == {r \in rows : r.carbon_footprint_kg # NULL}
    IN IF valued = {} THEN NULL ELSE SumCarbon(valued)

\* the where clause forgotten: the total runs over every farm
TotalQuery_AllFarms(db, f) == SqlSum(db)
\* select(func.sum(...)).where(farm_id == farm_id).first()
TotalQuery(db, f) == SqlSum({r \in db : r.farm_id = f})

\* the where clause forgotten: the groups run over every farm
BreakdownQuery_AllFarms(db, f) ==
    [t \in {r.activity_type : r \in db} |-> SqlSum({r \in db : r.activity_type = t})]
\* select(activity_type, func.sum(...)).where(...).group_by(activity_type).all()
BreakdownQuery(db, f) ==
    LET rows == {r \in db : r.farm_id = f}
        types == {r.activity_type : r \in rows}
    IN [t \in types |-> SqlSum({r \in rows : r.activity_type = t})]

\* the comprehension without its filter: a group whose sum is None keeps its key
BreakdownDict_KeepNone(q) == q
\* {activity: carbon for activity, carbon in breakdown_query if carbon is not None}
BreakdownDict(q) ==
    [t \in {x \in DOMAIN q : q[x] # NULL} |-> q[t]]

\* "or 0.0" forgotten
OrZero_Missing(x) == x
\* total_carbon or 0.0
OrZero(x) == IF x = NULL \/ x = 0 THEN 0 ELSE x

CarbonSummary(total, breakdown) ==
    [status |-> 200, total_carbon_kg |-> total, breakdown_by_activity |-> breakdown]
SummaryNotFound == [status |-> 404, total_carbon_kg |-> 0, breakdown_by_activity |-> <<>>]
NoSummary == [status |-> 0, total_carbon_kg |-> 0, breakdown_by_activity |-> <<>>]

EmptyLedger ==
    /\ store = {} /\ nextId = 1 /\ actResp = 0
    /\ sumPc = "idle" /\ sumFarm = 0 /\ sumTotal = NULL
    /\ sumChanged = FALSE /\ sumTouched = FALSE /\ sumResp = NoSummary

\* a committed write lands after the first query of a running summary request
NoteWrite == sumChanged' = (sumChanged \/ sumPc \in {"total", "done"})
\* and it is a write to farm f
NoteWriteTo(f) ==
    /\ NoteWrite
    /\ sumTouched' = (sumTouched \/ (sumPc \in {"total", "done"} /\ f = sumFarm))

\* what the try block of create_activity meets: db.commit() raises, or it
\* goes through and the db.refresh() after it raises, or both go through
SaveOutcomes == {"saved", "commit_raises", "refresh_raises"}

create_activity(u, f, t, c, saving) ==
    /\ nextId <= MaxCreates
    /\ UNCHANGED <<climateVars, estVars, dispatchVars, waterVars>>
    /\ UNCHANGED <<sumPc, sumFarm, sumTotal, sumResp>>
    /\ CASE f \notin Farms \/ owner_id(f) # u ->
              /\ actResp' = 404 /\ UNCHANGED <<store, nextId, sumChanged, sumTouched>>
         [] c = INVALID ->
              /\ actResp' = 422 /\ UNCHANGED <<store, nextId, sumChanged, sumTouched>>
         [] saving = "commit_raises" ->
              \* db.rollback()
              /\ actResp' = 500 /\ UNCHANGED <<store, nextId, sumChanged, sumTouched>>
         [] OTHER ->
              /\ store' = store \cup {Row(nextId, f, t, u, c)}
              /\ nextId' = nextId + 1
              \* a refresh that raises lands in the same except branch: the
              \* rollback finds nothing to undo, the row is committed
              /\ actResp' = IF saving = "saved" THEN 201 ELSE 500
              /\ NoteWriteTo(f)

delete_activity(id, u, commitOk) ==
    /\ UNCHANGED <<climateVars, estVars, dispatchVars, waterVars>>
    /\ UNCHANGED <<nextId, sumPc, sumFarm, sumTotal, sumResp>>
    /\ LET found == {r \in store : r.id = id}
       IN CASE found = {} ->
                 /\ actResp' = 404 /\ UNCHANGED <<store, sumChanged, sumTouched>>
            [] \E r \in found : r.user_id # u ->
                 /\ actResp' = 403 /\ UNCHANGED <<store, sumChanged, sumTouched>>
            [] ~commitOk ->
                 \* db.commit() raises: no except clause, the request fails
                 /\ actResp' = 500 /\ UNCHANGED <<store, sumChanged, sumTouched>>
            [] OTHER ->
                 /\ store' = store \ found
                 /\ actResp' = 204
                 /\ \E r \in found : NoteWriteTo(r.farm_id)

get_activities_for_farm(f, u) ==
    /\ UNCHANGED <<climateVars, estVars, dispatchVars, waterVars>>
    /\ actResp' = IF f \notin Farms \/ owner_id(f) # u THEN 404 ELSE 200
    /\ UNCHANGED <<store, nextId, sumPc, sumFarm, sumTotal, sumChanged, sumTouched, sumResp>>

\* get_carbon_summary_for_farm up to and including its first query
SummaryTotal(f, u) ==
    /\ sumPc = "idle"
    /\ UNCHANGED <<climateVars, estVars, dispatchVars, waterVars>>
    /\ sumFarm' = f
    /\ sumChanged' = FALSE /\ sumTouched' = FALSE
    /\ UNCHANGED <<store, nextId, actResp>>
    /\ IF f \notin Farms \/ owner_id(f) # u
       THEN /\ sumPc' = "done" /\ sumResp' = SummaryNotFound /\ sumTotal' = NULL
       ELSE /\ sumPc' = "total" /\ sumTotal' = TotalQuery(store, f) /\ UNCHANGED sumResp

\* the summary also stores the estimate of every row it found without footprint
SummaryBreakdown_Backfill ==
    /\ sumPc = "total"
    /\ UNCHANGED <<climateVars, estVars, dispatchVars, waterVars>>
    /\ sumPc' = "done"
    /\ sumResp' = CarbonSummary(OrZero(sumTotal), BreakdownDict(BreakdownQuery(store, sumFarm)))
    /\ store' = {IF r.farm_id = sumFarm /\ r.carbon_footprint_kg = NULL
                 THEN [r EXCEPT !.carbon_footprint_kg =
                                   estimate_carbon_footprint(r.activity_type, "")]
                 ELSE r : r \in store}
    /\ UNCHANGED <<nextId, actResp, sumFarm, sumTotal, sumChanged, sumTouched>>
\* its second query, the dict comprehension and the return
SummaryBreakdown ==
    /\ sumPc = "total"
    /\ UNCHANGED <<climateVars, estVars, dispatchVars, waterVars>>
    /\ sumPc' = "done"
    /\ sumResp' = CarbonSummary(OrZero(sumTotal), BreakdownDict(BreakdownQuery(store, sumFarm)))
    /\ UNCHANGED <<store, nextId, actResp, sumFarm, sumTotal, sumChanged, sumTouched>>

\* the response is delivered; the next summary request may start
SummaryReturn ==
    /\ sumPc = "done"
    /\ UNCHANGED <<climateVars, estVars, dispatchVars, waterVars>>
    /\ sumPc' = "idle" /\ sumFarm' = 0 /\ sumTotal' = NULL
    /\ sumChanged' = FALSE /\ sumTouched' = FALSE /\ sumResp' = NoSummary
    /\ UNCHANGED <<store, nextId, actResp>>

NextLedger ==
    \/ \E u \in Users, f \in FarmIds, t \in LedgerTypes, c \in CarbonInputs,
          saving \in SaveOutcomes :
          create_activity(u, f, t, c, saving)
    \/ \E id \in 1..MaxCreates, u \in Users, commitOk \in BOOLEAN :
          delete_activity(id, u, commitOk)
    \/ \E f \in FarmIds, u \in Users : get_activities_for_farm(f, u)
    \/ \E f \in FarmIds, u \in Users : SummaryTotal(f, u)
    \/ SummaryBreakdown
    \/ SummaryReturn

(***************************************************************************)
(* Two alert / water-advice requests on the single-threaded event loop     *)
(* (get_pest_disease_alerts, get_water_management_advice: async def).      *)
(* "await client.get" and "await asyncio.sleep" hand the thread back to    *)
(* the loop; "client.chat.completions.create(...)" is called without await *)
(* and its result is used on the next line, so the coroutine keeps the     *)
(* thread until the call returns.                                          *)
(***************************************************************************)
Reqs == {1, 2}

IdleDispatcher ==
    /\ reqPc = [r \in Reqs |-> "idle"]
    /\ reqAttempt = [r \in Reqs |-> 0]
    /\ reqStatus = [r \in Reqs |-> 0]
    /\ loop = 0

\* the loop resumes a coroutine only when no coroutine is running
LoopFree == loop = 0

\* the handler runs up to its first await: client.get inside _fetch_weather_data
Accept(r) ==
    /\ LoopFree /\ reqPc[r] = "idle"
    /\ reqPc' = [reqPc EXCEPT ![r] = "get"]
    /\ UNCHANGED <<reqAttempt, reqStatus, loop>>
    /\ UNCHANGED <<climateVars, ledgerVars, estVars, waterVars>>

\* the awaited GET completes with o; the coroutine runs on to its next
\* await, its raise, or into the collaborator call
GetCompletes(r, o) ==
    /\ LoopFree /\ reqPc[r] = "get"
    /\ UNCHANGED <<climateVars, ledgerVars, estVars, waterVars>>
    /\ UNCHANGED reqAttempt
    /\ CASE o.kind = "ok" ->
              \* rules, get_openai_client(), prompt, client.chat.completions.create(
              /\ reqPc' = [reqPc EXCEPT ![r] = "collab"]
              /\ loop' = r
              /\ UNCHANGED reqStatus
         [] IsHttpxError(o) /\ IsLastAttempt(reqAttempt[r]) ->
              /\ reqPc' = [reqPc EXCEPT ![r] = "done"]
              /\ reqStatus' = [reqStatus EXCEPT ![r] = FinalFetchError(o).status]
              /\ UNCHANGED loop
         [] IsHttpxError(o) ->
              /\ reqPc' = [reqPc EXCEPT ![r] = "sleep"]
              /\ UNCHANGED <<reqStatus, loop>>
         [] OTHER ->
              /\ reqPc' = [reqPc EXCEPT ![r] = "done"]
              /\ reqStatus' = [reqStatus EXCEPT ![r] = 500]
              /\ UNCHANGED loop

\* the awaited sleep is over; the loop's next pass awaits the next GET
SleepCompletes(r) ==
    /\ LoopFree /\ reqPc[r] = "sleep"
    /\ reqAttempt' = [reqAttempt EXCEPT ![r] = @ + 1]
    /\ reqPc' = [reqPc EXCEPT ![r] = "get"]
    /\ UNCHANGED <<reqStatus, loop>>
    /\ UNCHANGED <<climateVars, ledgerVars, estVars, waterVars>>

\* the collaborator call returns or raises; the handler runs to its end
CollabReturns(r, c) ==
    /\ loop = r /\ reqPc[r] = "collab"
    /\ reqPc' = [reqPc EXCEPT ![r] = "done"]
    /\ reqStatus' = [reqStatus EXCEPT ![r] = AdviceResponse("alerts", c).status]
    /\ loop' = 0
    /\ UNCHANGED reqAttempt
    /\ UNCHANGED <<climateVars, ledgerVars, estVars, waterVars>>

\* what the event loop can do for request r
DispatchStep(r) ==
    \/ Accept(r)
    \/ \E o \in ProviderOutcomes : GetCompletes(r, o)
    \/ SleepCompletes(r)
    \/ \E c \in CollabOutcomes : CollabReturns(r, c)

NextDispatch == \E r \in Reqs : DispatchStep(r)

(***************************************************************************)
(* assess_water_stress (app.climate_rules, not among the sources): the     *)
(* rule as specified.  A 7-day total under 2 mm is High; for any other     *)
(* total the level is Low or Medium, by thresholds that are configuration. *)
(* A single day over 10 mm is a separate flag and does not enter the level.*)
(***************************************************************************)
\* the dry threshold set above a normal week's rain
DryTotalBelow_TwentyTwo == 20 + 2
DryTotalBelow == 2

RECURSIVE SumSeq(_)
SumSeq(q) == IF q = <<>> THEN 0 ELSE q[1] + SumSeq(Tail(q))

\* the levels the rule may return for the daily precipitation sums
assess_water_stress(precipitation_sum) ==
    IF SumSeq(precipitation_sum) < DryTotalBelow THEN {"High"} ELSE {"Low", "Medium"}

\* daily precipitation values (mm) and the 7-day forecasts made of them
PrecipValues == {0, 1, 3, 12}
Forecasts == [1..7 -> PrecipValues]

IdleWater == wsForecast = <<>> /\ wsResult = ""
WaterInputs == wsForecast \in Forecasts /\ wsResult = ""

AssessWater ==
    /\ wsResult = ""
    /\ wsResult' \in assess_water_stress(wsForecast)
    /\ UNCHANGED wsForecast
    /\ UNCHANGED <<climateVars, ledgerVars, estVars, dispatchVars>>

(***************************************************************************)
(* Specifications                                                          *)
(***************************************************************************)

IdleEstimator == estType = "" /\ estDesc = "" /\ estResult = NULL

InitClimate == IdleRequest /\ EmptyLedger /\ IdleEstimator /\ IdleDispatcher /\ IdleWater
SpecClimate == InitClimate /\ [][NextClimate]_vars
\* the event loop resumes a coroutine whose await has completed, and every
\* GET ends within its timeout of 15 s
FairClimate == SpecClimate /\ WF_vars(NextClimate)
\* one request whose caller may go away while it sleeps
NextCancellable == NextClimate \/ CancelDuringSleep
SpecCancellable == InitClimate /\ [][NextCancellable]_vars

\* The store's operations beside one request of the kinds that read the
\* activity table or run next to it (carbon guidance, forecast, alerts).
\* Inputs are narrowed to keep the product small: one footprint value beside
\* NULL, a provider that answers, two collaborator outcomes.
MaxEngineCreates == 1
EngineCreate(u, f, t, c, saving) ==
    nextId <= MaxEngineCreates /\ create_activity(u, f, t, c, saving)
EngineProviderOutcomes == {o \in ProviderOutcomes : o.kind = "ok"}
EngineCollabOutcomes ==
    {c \in CollabOutcomes : c.kind = "api_timeout" \/ (c.kind = "ok" /\ c.n = 1)}
EngineRead ==
    \/ \E o \in {"guidance", "forecast", "alerts"}, f \in FarmIds, u \in Users :
          StartRequest(o, f, u)
    \/ \E o \in EngineProviderOutcomes : FetchAttempt(o)
    \/ \E c \in EngineCollabOutcomes : CollaboratorCall(c)
    \/ \E o \in EngineProviderOutcomes, c \in EngineCollabOutcomes : ForecastGet(o, c)
NextEngine ==
    \/ \E u \in Users, f \in FarmIds, t \in LedgerTypes, c \in {NULL, 15},
          saving \in SaveOutcomes :
          EngineCreate(u, f, t, c, saving)
    \/ \E id \in 1..MaxEngineCreates, u \in Users, commitOk \in BOOLEAN :
          delete_activity(id, u, commitOk)
    \/ \E f \in FarmIds, u \in Users : get_activities_for_farm(f, u)
    \/ \E f \in FarmIds, u \in Users : SummaryTotal(f, u)
    \/ SummaryBreakdown
    \/ SummaryReturn
    \/ EngineRead

InitWater == WaterInputs /\ IdleRequest /\ EmptyLedger /\ IdleEstimator /\ IdleDispatcher
NextWater == AssessWater
SpecWater == InitWater /\ [][NextWater]_vars

InitDispatch == IdleDispatcher /\ IdleRequest /\ EmptyLedger /\ IdleEstimator /\ IdleWater
SpecDispatch == InitDispatch /\ [][NextDispatch]_vars

InitLedger == EmptyLedger /\ IdleRequest /\ IdleEstimator /\ IdleDispatcher /\ IdleWater
SpecLedger == InitLedger /\ [][NextLedger]_vars
SpecEngine == InitLedger /\ [][NextEngine]_vars

InitEstimator == EstimatorInputs /\ IdleRequest /\ EmptyLedger /\ IdleDispatcher /\ IdleWater
NextEstimator == Estimate
SpecEstimator == InitEstimator /\ [][NextEstimator]_vars


(***************************************************************************)
(* Properties                                                              *)
(***************************************************************************)
RECURSIVE SumValues(_)
SumValues(d) ==
    IF DOMAIN d = {} THEN 0
    ELSE LET k == CHOOSE x \in DOMAIN d : TRUE
         IN d[k] + SumValues([x \in DOMAIN d \ {k} |-> d[x]])

Last(q) == q[Len(q)]
RowsOf(f) == {r \in store : r.farm_id = f}
\* the summary request has answered 200 and no write was committed since its first query
SummaryAnswered == sumPc = "done" /\ sumResp.status = 200 /\ ~sumChanged

\* connection error, timeout or 5xx-class status
Transient(o) == o.kind \in {"conn", "timeout"} \/ (o.kind = "status" /\ o.code >= 500)
\* a 4xx status other than rate-limit
NonTransient(o) == o.kind = "status" /\ o.code >= 400 /\ o.code < 500 /\ o.code # 429
\* the request called _fetch_weather_data
CallsFetcher == op \in FetchOps

\* C1: in every carbon summary returned for a set of stored activities,
\* total_carbon_kg is the sum of the values of breakdown_by_activity, rows
\* without a footprint included.
C1_TotalIsSumOfBreakdown ==
    SummaryAnswered =>
        sumResp.total_carbon_kg = SumValues(sumResp.breakdown_by_activity)

\* a summary over a farm holding a row without footprint and a row with one
C1_Witness ==
    /\ SummaryAnswered
    /\ \E r \in RowsOf(sumFarm) : r.carbon_footprint_kg = NULL
    /\ \E r \in RowsOf(sumFarm) : r.carbon_footprint_kg > 0
    /\ sumResp.total_carbon_kg > 0

\* C2: two transient failures, then success on the third attempt: the fetch
\* returns the forecast after exactly 2 backoff delays, the second at least as
\* long as the first.
C2_ThirdAttemptSucceeds ==
    (/\ CallsFetcher
     /\ Len(outcomes) = 3
     /\ Transient(outcomes[1]) /\ Transient(outcomes[2])
     /\ outcomes[3].kind = "ok")
    => /\ fetchResult = "forecast"
       /\ Len(delays) = 2
       /\ delays[2] >= delays[1]
       /\ delays[1] > 0

C2_Witness ==
    /\ CallsFetcher
    /\ outcomes = <<[kind |-> "conn", code |-> 0], [kind |-> "status", code |-> 503],
                    [kind |-> "ok", code |-> 200]>>
    /\ fetchResult = "forecast"
    /\ Len(delays) = 2

\* C3: a provider that answers 5xx every time: exactly 3 attempts, then the
\* weather-unavailable error; no forecast and no fourth attempt.
AllServerErrors ==
    /\ outcomes # <<>>
    /\ \A i \in 1..Len(outcomes) : outcomes[i].kind = "status" /\ outcomes[i].code >= 500
C3_AlwaysServerError ==
    (CallsFetcher /\ AllServerErrors) =>
        /\ Len(outcomes) <= 3
        /\ fetchResult # "forecast"
        /\ aiCalls = 0
        /\ Len(outcomes) = 3 <=> pc = "done"
        /\ pc = "done" =>
              /\ fetchResult = "raised"
              /\ resp.status = 502
              /\ ~ENABLED NextClimate

C3_Witness ==
    /\ CallsFetcher /\ AllServerErrors
    /\ Len(outcomes) = 3 /\ pc = "done" /\ resp.status = 502

\* C4 as stated: when the collaborator call of generate_recommendations fails,
\* the list returned is non-empty and built solely from the local evidence, so
\* that the same evidence gives the same list whatever the failure.
RuleOnlyText(ev) ==
    (IF ev.water = "High"
     THEN {"High water stress expected. Consider irrigation scheduling."} ELSE {})
    \cup {"Monitor crops for pest or disease risk." : p \in ev.pest}
    \cup (IF ev.water # "High" /\ ev.pest = {} THEN {"Conditions stable."} ELSE {})
RecsAfterFailure ==
    op = "recs" /\ pc = "done" /\ aiCalls = 1 /\ CollabFailed(collab)
C4_FallbackFromEvidence ==
    RecsAfterFailure =>
        /\ resp.body # <<>>
        /\ \A i \in 1..Len(resp.body) : resp.body[i] \in RuleOnlyText(evidence)

\* C4 as the code has it: the list is non-empty, but it is one fixed notice
\* chosen by the kind of failure alone, the same for every evidence.
C4_FixedNoticeOnFailure ==
    RecsAfterFailure =>
        /\ resp.status = 200
        /\ Len(resp.body) = 1
        /\ resp.body = IF collab.kind \in {"api_status", "api_timeout"}
                       THEN <<"Could not generate AI recommendations due to API error.">>
                       ELSE <<"Could not generate AI recommendations at this time.">>

\* the collaborator timed out while the rules saw high water stress and a pest
C4_Witness ==
    /\ RecsAfterFailure
    /\ collab.kind = "api_timeout"
    /\ evidence.water = "High" /\ evidence.pest # {}
    /\ Len(resp.body) = 1

\* C5: estimate_carbon_footprint returns the fixed factor of the category
\* (tenths of a kilogram), 0.5 for every unrecognized category, whatever the
\* description, and always returns a value.
C5_FixedFactors ==
    estResult # NULL =>
        estResult = CASE estType = "Planting" -> 15
                      [] estType = "Irrigation" -> 22
                      [] estType = "Fertilizing" -> 100
                      [] estType = "Pest Control" -> 30
                      [] estType = "Harvesting" -> 18
                      [] estType = "Other" -> 5
                      [] OTHER -> 5

\* an unrecognized category with a description that names a recognized one
C5_Witness ==
    estType = "Tilling" /\ estDesc = "Planting" /\ estResult = 5

\* C6: the carbon summary of a farm with no stored activities is total 0 with
\* an empty breakdown.
C6_EmptyFarmSummary ==
    (SummaryAnswered /\ RowsOf(sumFarm) = {}) =>
        /\ sumResp.total_carbon_kg = 0
        /\ DOMAIN sumResp.breakdown_by_activity = {}

\* the summary of an empty farm while the other farm holds a valued row
C6_Witness ==
    /\ SummaryAnswered /\ RowsOf(sumFarm) = {}
    /\ \E r \in store : r.carbon_footprint_kg > 0

\* C7 as stated: an attempt answered with a 4xx other than rate-limit ends the
\* fetch at once: it is the last attempt and no backoff sleep follows it.
C7_NonTransientFailsImmediately ==
    CallsFetcher =>
        \A i \in 1..Len(outcomes) :
            NonTransient(outcomes[i]) =>
                /\ i = Len(outcomes)
                /\ pc = "done"
                /\ fetchResult = "raised"
                /\ Len(delays) = i - 1

\* C7 as the code has it: a 4xx answer is handled like every other HTTP
\* error status: after the first or second attempt the fetch sleeps and tries
\* again, and only on the third attempt it fails (502).
C7_NonTransientIsRetried ==
    CallsFetcher =>
        \A i \in 1..Len(outcomes) :
            NonTransient(outcomes[i]) =>
                IF i <= 2
                THEN \/ Len(outcomes) = i /\ pc = "sleep" /\ Len(delays) = i - 1
                     \/ Len(delays) >= i
                ELSE /\ i = 3 /\ pc = "done"
                     /\ fetchResult = "raised" /\ resp.status = 502
                     /\ Len(delays) = 2

\* a 404 on the first attempt, retried, and the second attempt succeeded
C7_Witness ==
    /\ CallsFetcher
    /\ outcomes = <<[kind |-> "status", code |-> 404], [kind |-> "ok", code |-> 200]>>
    /\ delays = <<1>>
    /\ fetchResult = "forecast"

\* C8 as stated: after the retry budget is exhausted the error tells the
\* cause: connection failure or timeout as "could not connect" (503), an
\* upstream status as "upstream error" (502) carrying the provider's status.
BudgetExhausted ==
    /\ CallsFetcher /\ pc = "done" /\ fetchResult = "raised"
    /\ Len(outcomes) = 3 /\ IsHttpxError(outcomes[3])
\* the status codes an HTTPException lets its receiver read: its own
\* status_code; the detail texts are fixed and name no code
CodesCarried(r) == {r.status}
C8_ErrorCarriesCause ==
    BudgetExhausted =>
        IF Last(outcomes).kind = "status"
        THEN resp.status = 502 /\ Last(outcomes).code \in CodesCarried(resp)
        ELSE resp.status = 503

\* C8 as the code has it: 503 "could not connect" against 502 "weather
\* service error" distinguishes the cause; the 502 is the same for every
\* provider status (the status is printed to the log, not raised).
C8_ErrorDistinguishesCause ==
    BudgetExhausted =>
        IF Last(outcomes).kind = "status"
        THEN resp = [status |-> 502, detail |-> "Weather service error after retries.",
                     body |-> <<>>]
        ELSE resp = [status |-> 503,
                     detail |-> "Could not connect to the weather service after retries.",
                     body |-> <<>>]

\* the budget ran out on a timeout after two upstream statuses
C8_Witness ==
    /\ BudgetExhausted
    /\ outcomes[1].kind = "status" /\ outcomes[2].kind = "status"
    /\ outcomes[3].kind = "timeout"
    /\ resp.status = 503

\* C9 as stated: in every assessment operation a failed collaborator call
\* still ends in a successful response.
AfterCollabFailure ==
    /\ op \in {"alerts", "guidance", "water", "recs"}
    /\ pc = "done" /\ aiCalls = 1 /\ CollabFailed(collab)
C9_FailureNeverSurfaced ==
    AfterCollabFailure => resp.status = 200

\* C9 as the code has it: only generate_recommendations keeps the failure
\* from its caller (it returns a one-element notice list); the alert,
\* guidance and water operations raise an HTTP error: the status of the API
\* error when it has one, otherwise 500.
C9_FailureSurfacedByEndpoints ==
    AfterCollabFailure =>
        IF op = "recs"
        THEN resp.status = 200 /\ Len(resp.body) = 1
        ELSE /\ resp.status = IF collab.kind = "api_status" THEN collab.code ELSE 500
             /\ resp.status >= 400
             /\ resp.body = <<>>

\* the collaborator was rate-limited during a water-management request whose
\* forecast fetch had succeeded
C9_Witness ==
    /\ AfterCollabFailure
    /\ op = "water" /\ fetchResult = "forecast"
    /\ collab.kind = "api_status" /\ resp.status = 429

\* C10: in get_weather_forecast, when the forecast fetch succeeds and only
\* the narrative collaborator fails, the request answers 200 with the
\* forecast and a recommendation list.
C10_ForecastDegradesGracefully ==
    (/\ op = "forecast" /\ pc = "done"
     /\ outcomes # <<>> /\ Last(outcomes).kind = "ok"
     /\ CollabFailed(collab))
    => /\ resp.status = 200
       /\ resp.body # <<>>

\* the distinct messages of a returned list
Messages(body) == {body[i] : i \in 1..Len(body)}
\* the case of C11: fertilizing 3 days ago, planting 2 days ago, a week with
\* 1 mm of rain, and the collaborator call failed
DryWeekAfterPlanting ==
    /\ RecsAfterFailure
    /\ recent = <<Activity("Planting", 2), Activity("Fertilizing", 3)>>
    /\ precip = 1

\* C11 as stated: with fertilizing 3 days ago, planting 2 days ago and 1 mm of
\* rain in the week, the evidence holds a high-carbon-fertilizer fact and a
\* recently-planted-in-a-dry-week fact, and the list returned after a failed
\* collaborator call has at least 2 distinct messages.
C11_EvidenceFromActivities ==
    DryWeekAfterPlanting =>
        /\ \E e \in PromptFacts(evidence, recent) : e.fact = "high_carbon_fertilizer"
        /\ \E e \in PromptFacts(evidence, recent) : e.fact = "recently_planted_dry_week"
        /\ Cardinality(Messages(resp.body)) >= 2

\* C11 as the code has it: the evidence is the pest assessment, the water
\* stress level and the bare types of the recent activities (here
\* Fertilizing and Planting); no fact is derived from the activities' dates,
\* their carbon or the rainfall, and the list returned after a failed
\* collaborator call holds exactly 1 message.
C11_EvidenceIsAssessmentsAndTypes ==
    DryWeekAfterPlanting =>
        /\ \A e \in PromptFacts(evidence, recent) :
              e.fact \in {"pest_risk", "water_stress", "recent_activity"}
        /\ {e.about : e \in {x \in PromptFacts(evidence, recent) :
                                 x.fact = "recent_activity"}}
              = {"Fertilizing", "Planting"}
        /\ Cardinality({e \in PromptFacts(evidence, recent) : e.fact = "water_stress"}) = 1
        /\ Cardinality(Messages(resp.body)) = 1

\* the case of C11 with the rules seeing high water stress and a pest, and
\* the collaborator's answer unparseable
C11_Witness ==
    /\ DryWeekAfterPlanting
    /\ evidence.water = "High" /\ evidence.pest # {}
    /\ collab.kind = "not_json"
    /\ resp.body = <<"Could not generate AI recommendations at this time.">>

\* the footprints of a set of rows added up, a row without footprint adding nothing
RECURSIVE FootprintTotal(_)
FootprintTotal(rows) ==
    IF rows = {} THEN 0
    ELSE LET r == CHOOSE x \in rows : TRUE
         IN (IF r.carbon_footprint_kg = NULL THEN 0 ELSE r.carbon_footprint_kg)
            + FootprintTotal(rows \ {r})
RowsOfType(f, t) == {r \in RowsOf(f) : r.activity_type = t}

\* C12: whatever creations and deletions came before, the breakdown a summary
\* request of farm F reads is, category by category, the sum of the
\* footprints of exactly the activities of F in the store at the moment of
\* the query: nothing is carried over from earlier requests or writes.
C12_SummaryReadsStoreNow ==
    [][(sumPc = "total" /\ sumPc' = "done") =>
          LET b == sumResp'.breakdown_by_activity
          IN /\ \A t \in DOMAIN b : b[t] = FootprintTotal(RowsOfType(sumFarm, t))
             /\ \A t \in LedgerTypes \ DOMAIN b :
                   \A r \in RowsOfType(sumFarm, t) : r.carbon_footprint_kg = NULL]_vars

\* a summary answered after two creations and one deletion: the one row left
\* is the whole breakdown
C12_Witness ==
    /\ SummaryAnswered
    /\ nextId = 3 /\ Cardinality(store) = 1
    /\ \E r \in RowsOf(sumFarm) :
          /\ r.carbon_footprint_kg > 0
          /\ sumResp.breakdown_by_activity =
                [t \in {r.activity_type} |-> r.carbon_footprint_kg]

\* a row without a precomputed footprint
Unvalued(r) == r.carbon_footprint_kg = NULL
\* the footprint CarbonEstimator gives the row's category, in tenths of a kilogram
EstimatorValue(r) ==
    CASE r.activity_type = "Planting" -> 15
      [] r.activity_type = "Fertilizing" -> 100
      [] OTHER -> 5
RECURSIVE EstimatedTotal(_)
EstimatedTotal(rows) ==
    IF rows = {} THEN 0
    ELSE LET r == CHOOSE x \in rows : TRUE
         IN (IF Unvalued(r) THEN EstimatorValue(r) ELSE r.carbon_footprint_kg)
            + EstimatedTotal(rows \ {r})

\* C13 as stated: an activity stored without footprint is counted in the
\* summary with the estimator's value of its category, in the sum of its
\* category and in the total.
C13_MissingFootprintEstimated ==
    SummaryAnswered =>
        /\ sumResp.total_carbon_kg = EstimatedTotal(RowsOf(sumFarm))
        /\ \A r \in RowsOf(sumFarm) :
              /\ r.activity_type \in DOMAIN sumResp.breakdown_by_activity
              /\ sumResp.breakdown_by_activity[r.activity_type]
                    = EstimatedTotal(RowsOfType(sumFarm, r.activity_type))

\* C13 as the code has it: an activity stored without footprint is not
\* counted at all: total and breakdown are those of the farm's rows that
\* carry a footprint, and a category holding only rows without footprint has
\* no entry.
C13_MissingFootprintNotCounted ==
    (SummaryAnswered /\ \E r \in RowsOf(sumFarm) : Unvalued(r)) =>
        LET valued == {r \in RowsOf(sumFarm) : ~Unvalued(r)}
            b == sumResp.breakdown_by_activity
        IN /\ sumResp.total_carbon_kg = FootprintTotal(valued)
           /\ DOMAIN b = {r.activity_type : r \in valued}
           /\ \A t \in DOMAIN b :
                 b[t] = FootprintTotal({r \in valued : r.activity_type = t})

\* a farm with a fertilizing row of 1.5 kg and a fertilizing row without
\* footprint: the summary says 1.5 kg, not 1.5 + 10
C13_Witness ==
    /\ SummaryAnswered
    /\ \E r \in RowsOf(sumFarm) : Unvalued(r) /\ r.activity_type = "Fertilizing"
    /\ \E r \in RowsOf(sumFarm) : r.carbon_footprint_kg = 15 /\ r.activity_type = "Fertilizing"
    /\ sumResp.total_carbon_kg = 15
    /\ sumResp.breakdown_by_activity["Fertilizing"] = 15

\* C14 as stated: the breakdown has an entry for exactly the categories in
\* which the farm has at least one stored activity.
C14_EntryPerStoredCategory ==
    SummaryAnswered =>
        DOMAIN sumResp.breakdown_by_activity = {r.activity_type : r \in RowsOf(sumFarm)}

\* C14 as the code has it: a category has an entry exactly when the farm has
\* at least one stored activity of it that carries a footprint; no category
\* without activities appears, and a category whose activities all lack a
\* footprint is missing.
C14_EntryPerValuedCategory ==
    SummaryAnswered =>
        \A t \in LedgerTypes :
            t \in DOMAIN sumResp.breakdown_by_activity
                <=> \E r \in RowsOfType(sumFarm, t) : ~Unvalued(r)

\* a farm with a planting row without footprint and a valued fertilizing
\* row: the breakdown has the fertilizing entry only
C14_Witness ==
    /\ SummaryAnswered
    /\ RowsOfType(sumFarm, "Planting") # {}
    /\ \A r \in RowsOfType(sumFarm, "Planting") : Unvalued(r)
    /\ \E r \in RowsOfType(sumFarm, "Fertilizing") : ~Unvalued(r)
    /\ DOMAIN sumResp.breakdown_by_activity = {"Fertilizing"}

\* attempt i failed with an error of the retried kind and the fetcher has
\* gone past what it does about it (its sleep, or its raise)
FailureHandled(i) ==
    /\ i \in 1..Len(outcomes)
    /\ IsHttpxError(outcomes[i])
    /\ ~(i = Len(outcomes) /\ pc = "sleep")

FetchRunning == CallsFetcher /\ pc \in {"fetch", "sleep"}

\* C16: whatever the provider answers, one call of _fetch_weather_data makes
\* at most 3 attempts and at most 2 sleeps, a running call always ends, by
\* returning the forecast or by raising an error, and the raise after the
\* loop ("failed unexpectedly after retries") is never reached.
FetchStaysWithinBudget ==
    CallsFetcher =>
        /\ Len(outcomes) <= 3
        /\ Len(delays) <= 2
        /\ Len(delays) <= Len(outcomes)
        /\ attempt = Len(delays)
        /\ FetchRunning => /\ fetchResult = "pending"
                           /\ ENABLED (BackoffSleep \/ \E o \in ProviderOutcomes : FetchAttempt(o))
        /\ (~FetchRunning /\ outcomes # <<>>) =>
              /\ fetchResult \in {"forecast", "raised"}
              /\ fetchResult = "forecast" <=> Last(outcomes).kind = "ok"
        /\ resp.detail # "Weather fetch failed unexpectedly after retries."
C16_FetchEndsWithinThreeAttempts ==
    /\ []FetchStaysWithinBudget
    /\ FetchRunning ~> ~FetchRunning

\* a call that met a timeout, a 404 and then a 2xx answer with a broken body
C16_Witness ==
    /\ CallsFetcher
    /\ outcomes = <<[kind |-> "timeout", code |-> 0], [kind |-> "status", code |-> 404],
                    [kind |-> "badjson", code |-> 200]>>
    /\ pc = "done" /\ fetchResult = "raised"
    /\ resp.status = 500

\* attempt i got a 2xx answer whose body is not valid JSON
BrokenBody(i) == i \in 1..Len(outcomes) /\ outcomes[i].kind = "badjson"

\* C17 as stated: a 2xx answer with a body that is not valid JSON is handled
\* like a non-2xx answer: after the first or second attempt the fetcher
\* sleeps and tries again, and after the third it raises the
\* weather-unavailable error.
C17_BrokenBodyIsRetried ==
    CallsFetcher =>
        \A i \in 1..3 :
            BrokenBody(i) =>
                IF i <= 2
                THEN \/ Len(outcomes) = i /\ pc = "sleep"
                     \/ Len(delays) >= i
                ELSE pc = "done" /\ resp.status \in {502, 503}

\* C17 as the code has it: a 2xx answer with a body that is not valid JSON
\* is a fetch failure, but outside the retry policy: on whichever attempt it
\* comes it is the last one, no sleep follows it, and the call raises 500
\* "An unexpected error occurred fetching weather data." before any
\* collaborator call.
C17_BrokenBodyEndsFetchAtOnce ==
    CallsFetcher =>
        \A i \in 1..3 :
            BrokenBody(i) =>
                /\ i = Len(outcomes)
                /\ Len(delays) = i - 1
                /\ pc = "done" /\ fetchResult = "raised"
                /\ resp = [status |-> 500,
                           detail |-> "An unexpected error occurred fetching weather data.",
                           body |-> <<>>]
                /\ aiCalls = 0

\* a connection error, one sleep, then a 2xx answer with a broken body
C17_Witness ==
    /\ CallsFetcher
    /\ outcomes = <<[kind |-> "conn", code |-> 0], [kind |-> "badjson", code |-> 200]>>
    /\ delays = <<1>>
    /\ pc = "done" /\ resp.status = 500

\* the collaborator answered, but not with {"recommendations": [strings]}
Misshapen(c) == c.kind \in {"not_json", "no_key", "bad_value"}
\* the lists generate_recommendations returns in place of the collaborator's
FailureLists ==
    {<<"Could not generate AI recommendations due to API error.">>,
     <<"Could not generate AI recommendations at this time.">>,
     <<"AI analysis failed to generate recommendations.">>}

\* C18: a collaborator answer that is not JSON, has no "recommendations" key
\* or holds under it a value that is not a list of strings is treated as a
\* failed call: generate_recommendations returns one of its own failure
\* lists, never the answer's content.
C18_MisshapenAnswerNeverReturned ==
    (op = "recs" /\ pc = "done" /\ aiCalls = 1 /\ Misshapen(collab)) =>
        /\ resp.body \in FailureLists
        /\ resp.body # <<"<value that is not a list of strings>">>

\* generate_recommendations has returned
RecsReturned == op = "recs" /\ pc = "done" /\ aiCalls = 1
\* the facts of the two rule assessments
AssessmentFacts ==
    {e \in PromptFacts(evidence, recent) : e.fact \in {"pest_risk", "water_stress"}}

\* C19 as stated: the list returned after a failed collaborator call has one
\* message per evidence fact, at most 3; the list returned when the
\* collaborator answered has at most 3 entries too.
C19_ListsCappedAtThree ==
    RecsReturned =>
        /\ Len(resp.body) <= 3
        /\ CollabFailed(collab) =>
              Len(resp.body) = IF Cardinality(AssessmentFacts) > 3
                               THEN 3 ELSE Cardinality(AssessmentFacts)

\* C19 as the code has it: after a failed collaborator call the list has
\* exactly 1 entry however many facts the evidence holds; when the
\* collaborator answered with a list, that list is returned whole, as long
\* as the collaborator made it: the 3 of the prompt is not enforced.
C19_OneNoticeOrWholeAnswer ==
    RecsReturned =>
        /\ CollabFailed(collab) => Len(resp.body) = 1
        /\ collab.kind = "ok" => Len(resp.body) = collab.n

\* the collaborator answered with 4 recommendations while the evidence held
\* 2 facts: all 4 are returned
C19_Witness ==
    /\ RecsReturned
    /\ collab.kind = "ok" /\ collab.n = 4
    /\ Cardinality(AssessmentFacts) = 2
    /\ Len(resp.body) = 4

\* the request fetches the forecast: through _fetch_weather_data, or with
\* the GET of get_weather_forecast
FetchesForecast == op \in FetchOps \cup {"forecast"}
\* the request has answered with a weather-service error
WeatherFailureReported ==
    /\ FetchesForecast /\ pc = "done"
    /\ outcomes # <<>>
    /\ resp.status \in {502, 503}

\* C20: in the alert, water-advice and forecast operations alike, a
\* transient provider failure is reported only after 3 attempts were made;
\* none of them reports a weather failure after a single failed attempt.
C20_FailureOnlyAfterThreeAttempts ==
    (WeatherFailureReported /\ Transient(Last(outcomes))) => Len(outcomes) = 3

\* C21: when the caller cancels a request whose _fetch_weather_data is in a
\* backoff sleep, the sleep ends without completing, the request makes no
\* further provider attempt and takes no further step at all, and the
\* cancellation is not turned into a retry or an HTTP error.
CancelledRequestIsOver ==
    pc = "cancelled" =>
        /\ fetchResult = "cancelled"
        /\ resp = NoResp
        /\ Len(outcomes) \in {1, 2}
        /\ Len(delays) = Len(outcomes) - 1
        /\ aiCalls = 0
        /\ ~ENABLED NextCancellable
\* a step that leaves the sleep without having slept it out
SleepCutShort == pc = "sleep" /\ delays' = delays /\ pc' # "sleep"
C21_CancelledSleepEndsRequest ==
    /\ []CancelledRequestIsOver
    /\ [][SleepCutShort => (pc' = "cancelled" /\ resp' = NoResp /\ outcomes' = outcomes)]_vars

\* cancelled in the second sleep, after a timeout and a 503
C21_Witness ==
    /\ pc = "cancelled"
    /\ outcomes = <<[kind |-> "timeout", code |-> 0], [kind |-> "status", code |-> 503]>>
    /\ delays = <<1>>
    /\ attempt = 1

\* request r is in a backoff sleep, or waits for the weather provider or for
\* the narrative collaborator
Waiting(r) == reqPc[r] \in {"get", "sleep", "collab"}

\* C22: while one request is in a backoff sleep or waits for the weather
\* provider or the narrative collaborator, every other unfinished request
\* can take its next step.
C22_WaitNeverDelaysOthers ==
    \A r \in Reqs : \A q \in Reqs \ {r} :
        (Waiting(r) /\ reqPc[q] # "done") => ENABLED DispatchStep(q)

\* a summary has been answered and no write to its own farm was committed
\* since its first query (writes to other farms may have been)
AnsweredUntouched == sumPc = "done" /\ sumResp.status = 200 /\ ~sumTouched
\* what the two queries give on a store
SummaryOn(db, f) ==
    CarbonSummary(OrZero(TotalQuery(db, f)), BreakdownDict(BreakdownQuery(db, f)))

\* C23: the summary of farm F is the same on every store that has the same
\* activities of F: it is what the store without the other farms' activities
\* gives, whatever was created or deleted for other farms before or during
\* the request.
C23_SummaryDependsOnOwnFarmOnly ==
    AnsweredUntouched =>
        /\ sumResp = SummaryOn(RowsOf(sumFarm), sumFarm)
        /\ sumResp.total_carbon_kg = FootprintTotal(RowsOf(sumFarm))

\* a summary of a farm with a valued activity, answered while an activity of
\* the other farm was written between its two queries
C23_Witness ==
    /\ AnsweredUntouched
    /\ sumChanged
    /\ \E r \in store : r.farm_id # sumFarm /\ r.carbon_footprint_kg > 0
    /\ \E r \in RowsOf(sumFarm) : r.carbon_footprint_kg > 0
    /\ sumResp.total_carbon_kg > 0

\* a step of one of the engine's read operations
ReadStep ==
    \/ \E f \in FarmIds, u \in Users : get_activities_for_farm(f, u)
    \/ \E f \in FarmIds, u \in Users : SummaryTotal(f, u)
    \/ SummaryBreakdown
    \/ SummaryReturn
    \/ NextClimate

C25_DryWeekHighWetWeekNot ==
    wsResult # "" =>
        /\ wsForecast = <<0, 0, 0, 0, 0, 0, 0>> => wsResult = "High"
        /\ wsForecast = <<3, 3, 3, 3, 3, 3, 3>> => wsResult \in {"Low", "Medium"}

\* the week of 3 mm a day, assessed
C25_Witness ==
    wsForecast = <<3, 3, 3, 3, 3, 3, 3>> /\ wsResult = "Low"

\* C26: the total of a carbon summary equals the sum of its per-category
\* values also when an activity of the farm is created or deleted between
\* the query of the total and the query of the breakdown.
C26_TotalIsSumUnderInterleaving ==
    (sumPc = "done" /\ sumResp.status = 200) =>
        sumResp.total_carbon_kg = SumValues(sumResp.breakdown_by_activity)

\* C27: in the alert and water operations the collaborator is called only
\* after the forecast fetch has succeeded (the rule assessment follows it at
\* once); a request whose fetch failed has ended with the weather error, a
\* 5xx, and has made no collaborator call.
C27_CollaboratorOnlyAfterForecast ==
    CallsFetcher =>
        /\ (pc = "ai" \/ aiCalls > 0) =>
               /\ fetchResult = "forecast"
               /\ Last(outcomes).kind = "ok"
               /\ \A i \in 1..(Len(outcomes) - 1) : IsHttpxError(outcomes[i])
        /\ fetchResult = "raised" =>
               /\ aiCalls = 0 /\ collab = NoCollab
               /\ pc = "done"
               /\ resp.status \in {500, 502, 503}
        /\ aiCalls <= 1

\* three failed attempts: the request is over with 502 or 503, no call made
C27_Witness ==
    /\ CallsFetcher
    /\ Len(outcomes) = 3 /\ fetchResult = "raised" /\ pc = "done"
    /\ resp.status \in {502, 503}
    /\ aiCalls = 0

\* the three attempts failed, and not all in the same way
MixedFailures ==
    /\ BudgetExhausted
    /\ \E i, j \in 1..3 : IsHTTPStatusError(outcomes[i]) # IsHTTPStatusError(outcomes[j])

\* C28: after three failed attempts of mixed kinds the error reports the kind
\* of the third attempt alone: connection, connection, status gives 502
\* (upstream error); status, status, connection gives 503 (could not connect).
C28_LastAttemptDecides ==
    MixedFailures =>
        /\ IsHTTPStatusError(outcomes[3]) =>
               /\ resp.status = 502
               /\ resp.detail = "Weather service error after retries."
        /\ ~IsHTTPStatusError(outcomes[3]) =>
               /\ resp.status = 503
               /\ resp.detail = "Could not connect to the weather service after retries."

\* connection error, connection error, then a 503 answer: reported as 502
C28_Witness ==
    /\ MixedFailures
    /\ outcomes[1].kind = "conn" /\ outcomes[2].kind = "conn"
    /\ outcomes[3] = [kind |-> "status", code |-> 503]
    /\ resp.status = 502

\* C29 as stated: the fetcher never sleeps after a third failed attempt, a
\* failing call performs exactly the 2 sleeps 1 and 2, and a call that
\* succeeds on attempt k performs k-1 sleeps.
C29_FailingCallSleepsTwice ==
    CallsFetcher =>
        /\ pc = "sleep" => Len(outcomes) <= 2
        /\ fetchResult = "raised" => delays = <<1, 2>>
        /\ fetchResult = "forecast" => Len(delays) = Len(outcomes) - 1

\* C29 as the code has it: the fetcher never sleeps after a third failed
\* attempt; a call that ends on attempt k, by returning or by raising, has
\* performed the first k-1 of the sleeps 1, 2; a call that fails on errors
\* of the retried kind ends on attempt 3, after both sleeps; a call that
\* fails on an unreadable body ends on the attempt that met it.
C29_SleepsOneLessThanAttempts ==
    CallsFetcher =>
        /\ pc = "sleep" => Len(outcomes) <= 2
        /\ fetchResult # "pending" =>
               /\ Len(delays) = Len(outcomes) - 1
               /\ delays = SubSeq(<<1, 2>>, 1, Len(outcomes) - 1)
        /\ (fetchResult = "raised" /\ IsHttpxError(Last(outcomes))) =>
               Len(outcomes) = 3 /\ delays = <<1, 2>>
        /\ (fetchResult = "raised" /\ ~IsHttpxError(Last(outcomes))) =>
               Last(outcomes).kind = "badjson"

\* a status, a timeout and a connection error: two sleeps, then the raise
C29_Witness ==
    /\ CallsFetcher /\ pc = "done" /\ fetchResult = "raised"
    /\ Len(outcomes) = 3
    /\ outcomes[1].kind = "status" /\ outcomes[2].kind = "timeout"
    /\ outcomes[3].kind = "conn"
    /\ delays = <<1, 2>>

\* the statuses with which create_activity and delete_activity report an error
WriteErrors == {403, 404, 422, 500}

\* C30: every create_activity or delete_activity call that ends in an error
\* (404, 422 or 500 for create; 404 or 403 for delete) leaves the activity
\* store as it was.
C30_FailedWriteLeavesStore ==
    [][actResp' \in WriteErrors => store' = store]_vars

====
